---- MODULE Spec2Model ----
(***************************************************************************)
(* A model of the GraphSAGE training scripts of carthorse                  *)
(* (src/scripts/graphsage): the flat-file graph loaders, the live PostGIS  *)
(* loader with its label generator and partitioner, the training loops     *)
(* with early stopping, and the confidence gate of the evaluator.          *)
(*                                                                         *)
(* Each part has its own specification over the shared variables:          *)
(*   SpecFlat   load_graphsage_data of the five flat-file scripts          *)
(*   SpecLive   PostGISGraphLoader of train_graphsage_direct.py            *)
(*   SpecTrain  the epoch loops of the trainers                            *)
(*   SpecGate   evaluate_model_high_confidence                             *)
(*   SpecMain   main() of the scripts run on a flat artifact               *)
(*   SpecDirect main() of train_graphsage_direct.py                        *)
(*   SpecIntersection  main() of train_intersection_graphsage.py           *)
(***************************************************************************)
EXTENDS Integers, Sequences, FiniteSets, TLC

VARIABLES
    \* ---- flat loader ----
    variant,            \* which script's load_graphsage_data runs
    artifact,           \* the deserialized JSON artifact (data_dict)
    data,               \* the Data object the loader returns
    removed_reported,   \* the numbers printed as "removed N invalid edges"
    pc,                 \* "start" | "loaded" | "error"
    \* ---- live loader ----
    ways_noded_vertices_pgr,    \* node table: the set of node ids
    ways_noded,                 \* edge table: rows <<source, target>>
    connection,                 \* loader.connection: "none" | "open" | "closed"
    save_connection,            \* the connection of save_predictions_to_db
    graphsage_predictions,      \* prediction table: rows <<node_id, prediction>>
    previous_masks,             \* history: <<>> or <<masks of the previous run>>
    live_data,                  \* the Data object load_graph_data returns
    live_pc,                    \* "start" | "connected" | "loaded" | "failed"
    \* ---- trainer ----
    trainer,            \* which script's training loop runs
    epochs,             \* the configured epoch limit
    epoch,              \* the loop variable of "for epoch in range(epochs)"
    best_val_acc,       \* best validation accuracy seen (an accuracy level)
    patience_counter,   \* validation checks without improvement
    val_accuracies,     \* history: the epochs at which an entry was appended
    steps,              \* history variable: optimizer.step() calls so far
    max_seen,           \* history variable (early-stopping trainers): max of 0
                        \* and the validation accuracies observed
    since_improve,      \* history variable (early-stopping trainers): checks
                        \* since the last strict improvement of max_seen
    early_stopped,      \* the loop was left by "break"
    diverged,           \* history variable: some epoch's loss was not finite
    epoch_steps,        \* history: the statements the latest iteration of
                        \* the loop body executed, in order
    train_pc,           \* "loop" | "returned" | "raised"
    \* ---- confidence gate ----
    probabilities,          \* per node, the softmax output (class -> weight)
    confidence_threshold,   \* tau, in the same units as the weights
    predictions,            \* per node, the raw argmax class
    final_predictions,      \* per node, the gated class
    confident_count,        \* confident_mask.sum()
    gate_pc,                \* "start" | "evaluated"
    \* ---- main() of a script ----
    source_exists,      \* os.path.exists(args.data_path)
    main_pc,            \* the position in main
    num_classes,        \* output classes of the model main created (0: none)
    save_outcome,       \* history: <<>>, or <<how save_predictions_to_db
                        \* ended, the table's rows when it was called>>
    raised,             \* "none" or the class of the exception raised
    exit_status,        \* <<>> while running, <<code>> once the process exits
    evaluation_results, \* <<>> or <<predictions>>, as evaluate returned them
    output              \* <<>> or <<predictions>>: the prediction artifact

flatVars == <<variant, artifact, data, removed_reported, pc>>

liveVars == <<ways_noded_vertices_pgr, ways_noded, connection, save_connection,
              graphsage_predictions, previous_masks, live_data, live_pc>>

trainVars == <<trainer, epochs, epoch, best_val_acc, patience_counter,
               val_accuracies, steps, max_seen, since_improve, early_stopped,
               diverged, epoch_steps, train_pc>>

gateVars == <<probabilities, confidence_threshold, predictions,
              final_predictions, confident_count, gate_pc>>

mainVars == <<source_exists, main_pc, num_classes, save_outcome, raised,
              exit_status, evaluation_results, output>>

vars == <<flatVars, liveVars, trainVars, gateVars, mainVars>>

(***************************************************************************)
(* Bounds of the exhaustive input families.                                *)
(***************************************************************************)
MaxNodes == 2
MaxEdges == 2
MaxDbNodes == 2
MaxDbEdges == 4
MaxEpochs == 600
MaxAcc == 2
MaxGateNodes == 2
ProbScale == 4
MaxShuffleNodes == 7

(***************************************************************************)
(* Small helpers over sequences (tensors are sequences, 1-based).          *)
(***************************************************************************)
Range(s) == {s[i] : i \in 1..Len(s)}

Min2(a, b) == IF a <= b THEN a ELSE b
Max2(a, b) == IF a >= b THEN a ELSE b

SeqsUpTo(S, k) == UNION {[1..m -> S] : m \in 0..k}

Fill(n, v) == [i \in 1..n |-> v]

RECURSIVE SumBool(_)
SumBool(mask) ==
    IF mask = <<>> THEN 0
    ELSE (IF Head(mask) THEN 1 ELSE 0) + SumBool(Tail(mask))

(***************************************************************************)
(* Tensor operations used by the loaders.  An edge_index tensor of shape   *)
(* 2 x E is the pair <<row 0, row 1>> of two sequences of length E.        *)
(***************************************************************************)
NumCols(edge_index) == Len(edge_index[1])

\* tensor.view(2, -1) succeeds iff the element count is even and not zero
\* (a 0-element tensor cannot be reshaped with an unspecified dimension).
ViewOk(flat) == Len(flat) > 0 /\ Len(flat) % 2 = 0

\* tensor.view(2, -1): row-major, row 0 is the first half, row 1 the second.
View(flat) ==
    LET h == Len(flat) \div 2
    IN  <<SubSeq(flat, 1, h), SubSeq(flat, h + 1, 2 * h)>>

TensorMax(edge_index) ==
    LET S == Range(edge_index[1]) \cup Range(edge_index[2])
    IN  CHOOSE m \in S : \A v \in S : v <= m

TensorMin(edge_index) ==
    LET S == Range(edge_index[1]) \cup Range(edge_index[2])
    IN  CHOOSE m \in S : \A v \in S : m <= v

\* ValidEdges with the upper comparison off by one (<= for <).
ValidEdgesInclusive(edge_index, num_nodes) ==
    [j \in 1..NumCols(edge_index) |->
        /\ edge_index[1][j] <= num_nodes
        /\ edge_index[2][j] <= num_nodes
        /\ edge_index[1][j] >= 0
        /\ edge_index[2][j] >= 0]

\* valid_edges = (edge_index[0] < n) & (edge_index[1] < n)
\*             & (edge_index[0] >= 0) & (edge_index[1] >= 0)
ValidEdges(edge_index, num_nodes) ==
    [j \in 1..NumCols(edge_index) |->
        /\ edge_index[1][j] < num_nodes
        /\ edge_index[2][j] < num_nodes
        /\ edge_index[1][j] >= 0
        /\ edge_index[2][j] >= 0]

\* row[mask]: the entries of row whose mask entry is True, in order.
RECURSIVE MaskSelect(_, _)
MaskSelect(row, mask) ==
    IF row = <<>> THEN <<>>
    ELSE IF Head(mask)
         THEN <<Head(row)>> \o MaskSelect(Tail(row), Tail(mask))
         ELSE MaskSelect(Tail(row), Tail(mask))

\* edge_index[:, valid_edges]
SelectCols(edge_index, mask) ==
    <<MaskSelect(edge_index[1], mask), MaskSelect(edge_index[2], mask)>>

\* torch.clamp(t, lo, hi) = min(max(t, lo), hi), element-wise.
Clamp(edge_index, lo, hi) ==
    <<[j \in 1..Len(edge_index[1]) |-> Min2(Max2(edge_index[1][j], lo), hi)],
      [j \in 1..Len(edge_index[2]) |-> Min2(Max2(edge_index[2][j], lo), hi)]>>

\* the number printed as "removed N invalid edges": it is computed after
\* edge_index has been rebound to the filtered tensor.
RemovedCount(valid_edges, edge_index) ==
    SumBool(valid_edges) - NumCols(edge_index)

(***************************************************************************)
(* load_graphsage_data, lines "Validate and filter edge indices" to the    *)
(* clamp.  Returns the validated edge_index and the counts it printed, or   *)
(* raises (max() of an empty tensor).                                      *)
(***************************************************************************)
ValidateEdgeIndex(edge_index, num_nodes) ==
    IF NumCols(edge_index) = 0
    THEN [raised |-> TRUE, edge_index |-> edge_index, removed |-> <<>>]
    ELSE LET invalid     == \/ TensorMax(edge_index) >= num_nodes
                            \/ TensorMin(edge_index) < 0
             valid_edges == ValidEdges(edge_index, num_nodes)
             filtered    == IF invalid
                            THEN SelectCols(edge_index, valid_edges)
                            ELSE edge_index
             removed     == IF invalid
                            THEN <<RemovedCount(valid_edges, filtered)>>
                            ELSE <<>>
         IN  [raised     |-> FALSE,
              edge_index |-> Clamp(filtered, 0, num_nodes - 1),
              removed    |-> removed]

Variants == {"base", "intersection", "balanced", "high_confidence", "improved"}

\* the scripts whose loader validates edge indices
Validating == {"balanced", "high_confidence", "improved"}

\* the loaders that print data.y.max() before returning (the intersection
\* loader prints the artifact's metadata instead, taken to be present)
PrintsClasses == Variants \ {"intersection"}

NoData == [x |-> <<>>, edge_index |-> <<<<>>, <<>>>>, y |-> <<>>,
           train_mask |-> <<>>, val_mask |-> <<>>, test_mask |-> <<>>]

MakeData(x, edge_index, y, train_mask, val_mask, test_mask) ==
    [x |-> x, edge_index |-> edge_index, y |-> y,
     train_mask |-> train_mask, val_mask |-> val_mask, test_mask |-> test_mask]

\* the keys load_graphsage_data reads from data_dict
RequiredFields == {"x", "edge_index", "y", "train_mask", "val_mask", "test_mask"}

LoadFailure(exception, removed) ==
    [pc |-> "error", raised |-> exception, data |-> NoData, removed |-> removed]

\* The whole of load_graphsage_data for script v on artifact a.  The fields
\* are read in the order x, edge_index, y, masks: a missing key raises
\* KeyError, a value torch.tensor cannot convert ValueError, an edge_index
\* that view(2, -1) cannot reshape RuntimeError, as does max() of an empty
\* tensor.
LoadResult(v, a) ==
    IF "x" \notin a.keys THEN LoadFailure("KeyError", <<>>)
    ELSE IF ~a.x_numeric THEN LoadFailure("ValueError", <<>>)
    ELSE IF "edge_index" \notin a.keys THEN LoadFailure("KeyError", <<>>)
    ELSE IF ~ViewOk(a.edge_index) THEN LoadFailure("RuntimeError", <<>>)
    ELSE IF ~(RequiredFields \subseteq a.keys) THEN LoadFailure("KeyError", <<>>)
    ELSE LET num_nodes == Len(a.x)
             viewed    == View(a.edge_index)
             checked   == IF v \in Validating
                          THEN ValidateEdgeIndex(viewed, num_nodes)
                          ELSE [raised |-> FALSE, edge_index |-> viewed,
                                removed |-> <<>>]
         IN  IF checked.raised \/ (v \in PrintsClasses /\ Len(a.y) = 0)
             THEN LoadFailure("RuntimeError", checked.removed)
             ELSE [pc      |-> "loaded",
                   raised  |-> "none",
                   data    |-> MakeData(a.x, checked.edge_index, a.y,
                                        a.train_mask, a.val_mask, a.test_mask),
                   removed |-> checked.removed]

LoadGraphsageData ==
    /\ pc = "start"
    /\ LET r == LoadResult(variant, artifact)
       IN  /\ pc' = r.pc
           /\ raised' = r.raised
           /\ data' = r.data
           /\ removed_reported' = r.removed
    /\ UNCHANGED <<variant, artifact>>
    /\ UNCHANGED <<source_exists, num_classes, save_outcome, main_pc,
                   exit_status, evaluation_results, output>>
    /\ UNCHANGED <<liveVars, trainVars, gateVars>>

(***************************************************************************)
(* Input artifacts.  x is kept as one abstract feature row per node.       *)
(***************************************************************************)
EdgeValues == -1..MaxNodes

DefaultMask(n, k) == [i \in 1..n |-> i % 3 = k]

\* data_dict: the six fields, the keys present, and whether the value of x
\* is a rectangular list of numbers
Artifact(x, edge_index, y, train_mask, val_mask, test_mask) ==
    [x |-> x, edge_index |-> edge_index, y |-> y,
     train_mask |-> train_mask, val_mask |-> val_mask, test_mask |-> test_mask,
     keys |-> RequiredFields, x_numeric |-> TRUE]

\* every edge list over a small node range, consistent label and mask lengths
EdgeArtifacts ==
    {Artifact(Fill(n, 0), e, Fill(n, 0),
              DefaultMask(n, 1), DefaultMask(n, 2), DefaultMask(n, 0)) :
        n \in 0..MaxNodes, e \in SeqsUpTo(EdgeValues, 2 * MaxEdges)}

\* every combination of field lengths, one fixed edge (0, 0)
LengthArtifacts ==
    {Artifact(Fill(n, 0), <<0, 0>>, Fill(ny, 0),
              Fill(nt, TRUE), Fill(nv, FALSE), Fill(ns, FALSE)) :
        n \in 0..MaxNodes, ny \in 0..MaxNodes, nt \in 0..MaxNodes,
        nv \in 0..MaxNodes, ns \in 0..MaxNodes}

\* a 10-node path 0-1-...-9 plus the edge (0, 999)
TenNodeArtifact ==
    Artifact(Fill(10, 0),
             <<0, 1, 2, 3, 4, 5, 6, 7, 8, 0>> \o <<1, 2, 3, 4, 5, 6, 7, 8, 9, 999>>,
             Fill(10, 0),
             DefaultMask(10, 1), DefaultMask(10, 2), DefaultMask(10, 0))

\* two nodes joined by the edge (0, 1), one node in each of train and val
TwoNodeArtifact ==
    Artifact(Fill(2, 0), <<0, 1>>, <<0, 1>>,
             <<TRUE, FALSE>>, <<FALSE, TRUE>>, <<FALSE, FALSE>>)

\* three nodes, one per partition, with the edges (0, 1) and (1, 2)
ThreeNodeArtifact ==
    Artifact(Fill(3, 0), <<0, 1, 1, 2>>, <<0, 1, 2>>,
             <<TRUE, FALSE, FALSE>>, <<FALSE, TRUE, FALSE>>,
             <<FALSE, FALSE, TRUE>>)

\* the three-node artifact with one required key absent
MissingFieldArtifacts ==
    {[ThreeNodeArtifact EXCEPT !.keys = RequiredFields \ {f}] :
        f \in RequiredFields}

\* the three-node artifact whose x is not a list of number rows
GarbledArtifact == [ThreeNodeArtifact EXCEPT !.x_numeric = FALSE]

Artifacts ==
    EdgeArtifacts \cup LengthArtifacts
    \cup {TenNodeArtifact, TwoNodeArtifact, ThreeNodeArtifact, GarbledArtifact}
    \cup MissingFieldArtifacts

FlatIdle ==
    /\ variant = "base"
    /\ artifact = Artifact(<<>>, <<>>, <<>>, <<>>, <<>>, <<>>)
    /\ data = NoData
    /\ removed_reported = <<>>
    /\ pc = "idle"

(***************************************************************************)
(* The live loader: PostGISGraphLoader of train_graphsage_direct.py.       *)
(***************************************************************************)
\* SQL NULL in an edge row's source or target column
NULL == -1

\* number of edge rows joined to node v by
\* LEFT JOIN ... ON (e.source = v.id OR e.target = v.id), i.e. COUNT(e.id)
Degree(v, rows) ==
    Cardinality({j \in 1..Len(rows) : rows[j][1] = v \/ rows[j][2] = v})

\* a set of integers as the ascending sequence (ORDER BY id)
RECURSIVE Ascending(_)
Ascending(S) ==
    IF S = {} THEN <<>>
    ELSE LET m == CHOOSE a \in S : \A b \in S : a <= b
         IN  <<m>> \o Ascending(S \ {m})

\* node_rows: one row per node in ascending id order, with its degree
NodeQuery(nodes, rows) ==
    LET ids == Ascending(nodes)
    IN  [i \in 1..Len(ids) |-> [id |-> ids[i], degree |-> Degree(ids[i], rows)]]

RowLess(r, q) == r[1] < q[1] \/ (r[1] = q[1] /\ r[2] < q[2])

\* insertion of a row into a sequence sorted by (source, target)
RECURSIVE InsertRow(_, _)
InsertRow(r, sorted) ==
    IF sorted = <<>> THEN <<r>>
    ELSE IF RowLess(Head(sorted), r)
         THEN <<Head(sorted)>> \o InsertRow(r, Tail(sorted))
         ELSE <<r>> \o sorted

RECURSIVE SortRows(_)
SortRows(rows) ==
    IF rows = <<>> THEN <<>> ELSE InsertRow(Head(rows), SortRows(Tail(rows)))

NotNullRow(r) == r[1] # NULL /\ r[2] # NULL

\* edge_rows: WHERE source IS NOT NULL AND target IS NOT NULL
\*            ORDER BY source, target
EdgeQuery(rows) == SortRows(SelectSeq(rows, NotNullRow))

\* NodeIdToIdx counting positions from 1 (enumerate(node_ids, 1)).
NodeIdToIdxOneBased(node_ids, id) ==
    CHOOSE i \in 1..Len(node_ids) : node_ids[i] = id

\* node_id_to_idx[id]: the 0-based position of id in node_ids
NodeIdToIdx(node_ids, id) ==
    (CHOOSE i \in 1..Len(node_ids) : node_ids[i] = id) - 1

\* the loop building edge_list from edge_rows
RECURSIVE EdgeList(_, _)
EdgeList(edge_rows, node_ids) ==
    IF edge_rows = <<>> THEN <<>>
    ELSE LET source == Head(edge_rows)[1]
             target == Head(edge_rows)[2]
             rest   == EdgeList(Tail(edge_rows), node_ids)
         IN  IF source \in Range(node_ids) /\ target \in Range(node_ids)
             THEN <<<<NodeIdToIdx(node_ids, source),
                      NodeIdToIdx(node_ids, target)>>>> \o rest
             ELSE rest

\* torch.tensor(edge_list).t(): the list of pairs as a 2 x E tensor
Transpose(edge_list) ==
    <<[j \in 1..Len(edge_list) |-> edge_list[j][1]],
      [j \in 1..Len(edge_list) |-> edge_list[j][2]]>>

\* NodeLabel with the split threshold off by one (>= 3 for >= 4).
NodeLabelSplitAtThree(degree) ==
    IF degree = 2 THEN 1
    ELSE IF degree >= 3 THEN 2
    ELSE 0

\* the label derived from a node's degree
NodeLabel(degree) ==
    IF degree = 2 THEN 1
    ELSE IF degree >= 4 THEN 2
    ELSE 0

RECURSIVE Pow2Floor(_)
Pow2Floor(v) == IF v < 2 THEN 1 ELSE 2 * Pow2Floor(v \div 2)

\* int(num_nodes * 0.7) in IEEE-754 double arithmetic.  The double nearest
\* 0.7 is 0.7 - 2^-52/5, so the exact product is below 7n/10 by n*2^-52/5.
\* Only when 7n/10 is an integer (n = 10k) can truncation see that: the
\* product 7k - k*2^-51 rounds to the double just below 7k iff k*2^-51
\* exceeds half the spacing 2^(e-52) of doubles in [2^e, 2^(e+1)) holding
\* 7k, i.e. iff 4k > 2^e (a tie rounds to the even significand, 7k).
TrainEnd(num_nodes) ==
    LET k == num_nodes \div 10
    IN  IF num_nodes > 0 /\ num_nodes % 10 = 0 /\ 4 * k > Pow2Floor(7 * k)
        THEN 7 * k - 1
        ELSE (7 * num_nodes) \div 10

\* ValEnd without the train_end offset.
ValEndNoOffset(num_nodes) == (15 * num_nodes) \div 100

\* train_end + int(num_nodes * 0.15); the double nearest 0.15 is
\* 0.15 - 2^-55/5 and no product n * 0.15 rounds below an integer 3n/20.
ValEnd(num_nodes) == TrainEnd(num_nodes) + (15 * num_nodes) \div 100

\* Python slice indices[lo:hi] of a list, 0 <= lo, hi <= len
Slice(indices, lo, hi) == SubSeq(indices, lo + 1, hi)

\* mask = zeros(num_nodes); mask[idx] = True
MaskOf(num_nodes, idx) == [i \in 1..num_nodes |-> (i - 1) \in Range(idx)]

\* The whole of load_graph_data on the two tables, for shuffle outcome
\* indices (a permutation of 0..n-1).
LiveLoadResult(nodes, rows, indices) ==
    LET node_rows == NodeQuery(nodes, rows)
        node_ids  == [i \in 1..Len(node_rows) |-> node_rows[i].id]
        x         == [i \in 1..Len(node_rows) |-> [degree |-> node_rows[i].degree]]
        edge_rows == EdgeQuery(rows)
        edge_list == EdgeList(edge_rows, node_ids)
        y         == [i \in 1..Len(node_rows) |-> NodeLabel(node_rows[i].degree)]
        num_nodes == Len(node_ids)
        train_end == TrainEnd(num_nodes)
        val_end   == ValEnd(num_nodes)
    IN  MakeData(x, Transpose(edge_list), y,
                 MaskOf(num_nodes, Slice(indices, 0, train_end)),
                 MaskOf(num_nodes, Slice(indices, train_end, val_end)),
                 MaskOf(num_nodes, Slice(indices, val_end, num_nodes)))

\* the outcomes of random.shuffle(list(range(n))): every permutation of
\* 0..n-1; for graphs of more than MaxShuffleNodes nodes only the identity
\* and the reversal are explored
Shuffles(n) ==
    IF n <= MaxShuffleNodes
    THEN {[i \in 1..n |-> f[i] - 1] : f \in Permutations(1..n)}
    ELSE {[i \in 1..n |-> i - 1], [i \in 1..n |-> n - i]}

\* loader.connect()
Connect ==
    /\ live_pc = "start"
    /\ connection = "none"
    /\ connection' = "open"
    /\ live_pc' = "connected"
    /\ UNCHANGED <<ways_noded_vertices_pgr, ways_noded, live_data,
                   save_connection, graphsage_predictions, previous_masks>>
    /\ UNCHANGED <<flatVars, trainVars, gateVars, mainVars>>

\* loader.load_graph_data(schema); the closing print of data.y.max()
\* raises on a graph without nodes.
LoadGraphData ==
    /\ live_pc = "connected"
    /\ connection = "open"
    /\ \E indices \in Shuffles(Cardinality(ways_noded_vertices_pgr)) :
        LET d == LiveLoadResult(ways_noded_vertices_pgr, ways_noded, indices)
        IN  IF Len(d.y) = 0
            THEN /\ live_pc' = "failed"
                 /\ live_data' = NoData
                 /\ raised' = "RuntimeError"
            ELSE /\ live_pc' = "loaded"
                 /\ live_data' = d
                 /\ raised' = raised
    /\ UNCHANGED <<ways_noded_vertices_pgr, ways_noded, connection,
                   save_connection, graphsage_predictions, previous_masks>>
    /\ UNCHANGED <<source_exists, num_classes, save_outcome, main_pc,
                   exit_status, evaluation_results, output>>
    /\ UNCHANGED <<flatVars, trainVars, gateVars>>

\* psycopg2.connect raises: the database is unreachable
ConnectFails ==
    /\ live_pc = "start"
    /\ connection = "none"
    /\ live_pc' = "failed"
    /\ raised' = "OperationalError"
    /\ UNCHANGED <<ways_noded_vertices_pgr, ways_noded, connection, live_data,
                   save_connection, graphsage_predictions, previous_masks>>
    /\ UNCHANGED <<source_exists, num_classes, save_outcome, main_pc,
                   exit_status, evaluation_results, output>>
    /\ UNCHANGED <<flatVars, trainVars, gateVars>>

\* cursor.execute raises on the node query or on the edge query
QueryFails ==
    /\ live_pc = "connected"
    /\ connection = "open"
    /\ \E query \in {"node_query", "edge_query"} :
        /\ live_pc' = "failed"
        /\ raised' = "DatabaseError"
    /\ UNCHANGED <<ways_noded_vertices_pgr, ways_noded, connection, live_data,
                   save_connection, graphsage_predictions, previous_masks>>
    /\ UNCHANGED <<source_exists, num_classes, save_outcome, main_pc,
                   exit_status, evaluation_results, output>>
    /\ UNCHANGED <<flatVars, trainVars, gateVars>>

\* loader.disconnect() without the close.
AfterDisconnectLeavesOpen(conn) == conn

\* loader.disconnect(): "if self.connection: self.connection.close()"
AfterDisconnect(conn) == IF conn = "open" THEN "closed" ELSE conn

(***************************************************************************)
(* Database contents.  The edge table is a bag of rows, kept as a sequence *)
(* in a canonical (non-decreasing) order of row kinds.                     *)
(***************************************************************************)
IdPool == {10 * i : i \in 1..MaxDbNodes}

RowKinds ==
    LET V == Ascending(IdPool) \o <<NULL>>
        m == Len(V)
    IN  [k \in 1..(m * m) |-> <<V[((k - 1) \div m) + 1], V[((k - 1) % m) + 1]>>]

RECURSIVE NonDecreasing(_, _, _)
NonDecreasing(len, lo, hi) ==
    IF len = 0 THEN {<<>>}
    ELSE {<<v>> \o s : v \in {lo}, s \in NonDecreasing(len - 1, lo, hi)}
         \cup (IF lo < hi THEN NonDecreasing(len, lo + 1, hi) ELSE {})

EdgeTables ==
    {[j \in 1..Len(s) |-> RowKinds[s[j]]] :
        s \in UNION {NonDecreasing(len, 1, Len(RowKinds)) : len \in 0..MaxDbEdges}}

\* six nodes with degrees 1, 2, 2, 3, 4, 5 (ids 10..60 in that order)
FixtureNodes == {10, 20, 30, 40, 50, 60}

DegreeFixtureEdges ==
    <<<<10, 60>>, <<20, 50>>, <<20, 60>>, <<30, 50>>, <<30, 60>>,
      <<40, 50>>, <<40, 60>>, <<50, 60>>, <<40, NULL>>>>

\* a ring of six nodes, all of degree 2
RingEdges ==
    <<<<10, 20>>, <<20, 30>>, <<30, 40>>, <<40, 50>>, <<50, 60>>, <<10, 60>>>>

\* a path of seven nodes, the smallest graph with a validation node
PathNodes == {10, 20, 30, 40, 50, 60, 70}

PathEdges ==
    <<<<10, 20>>, <<20, 30>>, <<30, 40>>, <<40, 50>>, <<50, 60>>, <<60, 70>>>>

\* ninety nodes, the smallest count at which num_nodes * 0.7 is rounded
\* below the integer 7 * num_nodes / 10
NinetyNodes == {10 * i : i \in 1..90}

NinetyEdges == <<<<10, 20>>, <<20, 30>>>>

Databases ==
    {<<n, e>> : n \in SUBSET IdPool, e \in EdgeTables}
    \cup {<<FixtureNodes, DegreeFixtureEdges>>, <<FixtureNodes, RingEdges>>,
          <<PathNodes, PathEdges>>, <<NinetyNodes, NinetyEdges>>}

LiveIdle ==
    /\ ways_noded_vertices_pgr = {}
    /\ ways_noded = <<>>
    /\ connection = "none"
    /\ save_connection = "none"
    /\ graphsage_predictions = <<>>
    /\ previous_masks = <<>>
    /\ live_data = NoData
    /\ live_pc = "idle"

(***************************************************************************)
(* The training loops.  Validation accuracies are levels 0..MaxAcc (level  *)
(* 0 is accuracy 0.0) or NaN (the mean over an empty validation mask).     *)
(***************************************************************************)
Trainers == {"base", "direct", "intersection",
             "balanced", "high_confidence", "improved"}

EarlyStopping == {"balanced", "high_confidence", "improved"}

BaseValidateEvery == 10
DirectValidateEvery == 10
IntersectionValidateEvery == 1
BalancedValidateEvery == 10
HighConfidenceValidateEvery == 15
ImprovedValidateEvery == 10

BalancedPatience == 30
HighConfidencePatience == 40
ImprovedPatience == 50

\* K: validation runs at the epochs with epoch % K == 0
ValidateEvery(t) ==
    CASE t = "base"            -> BaseValidateEvery
      [] t = "direct"          -> DirectValidateEvery
      [] t = "intersection"    -> IntersectionValidateEvery
      [] t = "balanced"        -> BalancedValidateEvery
      [] t = "high_confidence" -> HighConfidenceValidateEvery
      [] t = "improved"        -> ImprovedValidateEvery

\* the bound patience_counter is compared with (early-stopping trainers)
Patience(t) ==
    CASE t = "balanced"        -> BalancedPatience
      [] t = "high_confidence" -> HighConfidencePatience
      [] t = "improved"        -> ImprovedPatience

NaN == -1

AccValues == (0..MaxAcc) \cup {NaN}

\* a > b on floats: False whenever an operand is NaN
Greater(a, b) == a # NaN /\ b # NaN /\ a > b

\* the loop condition of "for epoch in range(epochs)" with one epoch more.
LoopContinuesInclusive(e, limit) == e <= limit

\* "for epoch in range(epochs)": the body runs for epoch = 0..epochs-1
LoopContinues(e, limit) == e < limit

\* IsValidationEpoch counting epochs from 1 ((epoch + 1) % K == 0).
IsValidationEpochOneBased(t, e) == (e + 1) % ValidateEvery(t) = 0

\* "if epoch % K == 0"
IsValidationEpoch(t, e) == e % ValidateEvery(t) = 0

\* BestAfter keeping the latest accuracy, better or not.
BestAfterLatest(val_acc, best) == IF val_acc # NaN THEN val_acc ELSE best

\* "if val_acc > best_val_acc: best_val_acc = val_acc"
BestAfter(val_acc, best) == IF Greater(val_acc, best) THEN val_acc ELSE best

\* PatienceAfter with a tie counted as an improvement (>= for >).
PatienceAfterTieResets(counter, val_acc, best) ==
    IF val_acc # NaN /\ val_acc >= best THEN 0 ELSE counter + 1

\* "patience_counter = 0" on improvement, "patience_counter += 1" otherwise
PatienceAfter(counter, val_acc, best) ==
    IF Greater(val_acc, best) THEN 0 ELSE counter + 1

\* ShouldStop one check early (>= N - 1).
ShouldStopOneEarly(t, counter) ==
    t \in EarlyStopping /\ counter >= Patience(t) - 1

\* "if patience_counter >= N: break"
ShouldStop(t, counter) == t \in EarlyStopping /\ counter >= Patience(t)

\* the graph handed to the training loop
TrainingData == IF trainer = "direct" THEN live_data ELSE data

\* out[data.train_mask] and data.y[data.train_mask] raise IndexError when
\* the mask is not as long as the indexed tensor; the model's forward pass
\* raises on an edge endpoint that is no node index, and on the
\* one-dimensional edge_index the live loader builds from an empty edge_list;
\* the loss raises IndexError on a training label that is no output class
ForwardRaises(t, d) ==
    \/ Len(d.train_mask) # Len(d.x)
    \/ Len(d.y) # Len(d.train_mask)
    \/ /\ Len(d.y) = Len(d.train_mask)
       /\ \E i \in 1..Len(d.y) : d.train_mask[i] /\ d.y[i] >= num_classes
    \/ \E j \in 1..NumCols(d.edge_index) :
           \/ d.edge_index[1][j] < 0 \/ d.edge_index[1][j] >= Len(d.x)
           \/ d.edge_index[2][j] < 0 \/ d.edge_index[2][j] >= Len(d.x)
    \/ (t = "direct" /\ Len(d.x) > 0 /\ NumCols(d.edge_index) = 0)

\* val_out[data.val_mask] raises IndexError on a mask of another length
ValidationRaises(d) == Len(d.val_mask) # Len(d.x)

\* train_model_improved indexes data.y[data.train_mask] before the loop
PreLoopRaises(t, d) == t = "improved" /\ Len(d.y) # Len(d.train_mask)

\* the values criterion(...) can return: a finite loss, NaN or infinity;
\* after a non-finite loss the parameters are NaN and so is every later loss
LossValues == {"finite", "nan", "inf"}

LossOutcomes(was_diverged) == IF was_diverged THEN {"nan"} ELSE LossValues

\* the trainers that call torch.nn.utils.clip_grad_norm_ between
\* loss.backward() and optimizer.step()
Clipping == {"balanced", "high_confidence", "improved"}

\* the statements of the loop body up to the parameter update, in order
OptimizationSteps(t) ==
    IF t \in Clipping
    THEN <<"zero_grad", "forward", "loss", "backward", "clip_grad_norm", "step">>
    ELSE <<"zero_grad", "forward", "loss", "backward", "step">>

\* the statements of one whole iteration: the validation block follows the
\* update
IterationSteps(t, validates) ==
    OptimizationSteps(t) \o (IF validates THEN <<"validate">> ELSE <<>>)

\* One iteration of the loop body: the optimization step, then, at a
\* validation epoch, the validation check, the history entry and the
\* early-stopping decision.  No statement of the body reads the loss except
\* to record and print it.
TrainEpoch ==
    /\ train_pc = "loop"
    /\ ~early_stopped
    /\ LoopContinues(epoch, epochs)
    /\ ~ForwardRaises(trainer, TrainingData)
    /\ ~(IsValidationEpoch(trainer, epoch) /\ ValidationRaises(TrainingData))
    /\ \E loss \in LossOutcomes(diverged) :
           diverged' = (diverged \/ loss # "finite")
    /\ steps' = steps + 1
    /\ epoch_steps' = IterationSteps(trainer, IsValidationEpoch(trainer, epoch))
    /\ IF IsValidationEpoch(trainer, epoch)
       THEN \E val_acc \in AccValues :
            LET counter == PatienceAfter(patience_counter, val_acc, best_val_acc)
            IN  /\ val_accuracies' = Append(val_accuracies, epoch)
                /\ IF trainer \in EarlyStopping
                   THEN /\ best_val_acc' = BestAfter(val_acc, best_val_acc)
                        /\ patience_counter' = counter
                        /\ early_stopped' = ShouldStop(trainer, counter)
                        /\ epoch' = IF ShouldStop(trainer, counter)
                                    THEN epoch ELSE epoch + 1
                        /\ max_seen' = IF Greater(val_acc, max_seen)
                                       THEN val_acc ELSE max_seen
                        /\ since_improve' = IF Greater(val_acc, max_seen)
                                            THEN 0 ELSE since_improve + 1
                   ELSE /\ epoch' = epoch + 1
                        /\ UNCHANGED <<best_val_acc, patience_counter,
                                       early_stopped, max_seen, since_improve>>
       ELSE /\ epoch' = epoch + 1
            /\ UNCHANGED <<best_val_acc, patience_counter, val_accuracies,
                           max_seen, since_improve, early_stopped>>
    /\ UNCHANGED <<trainer, epochs, train_pc>>
    /\ UNCHANGED <<flatVars, liveVars, gateVars, mainVars>>

\* An exception leaves the training function: before the loop, in the
\* forward pass or loss of an epoch (before its optimization step), or in
\* the validation check of a validation epoch (after the step).
TrainRaises ==
    /\ train_pc = "loop"
    /\ ~early_stopped
    /\ \/ /\ epoch = 0 /\ PreLoopRaises(trainer, TrainingData)
          /\ steps' = steps
          /\ epoch_steps' = epoch_steps
       \/ /\ LoopContinues(epoch, epochs)
          /\ ForwardRaises(trainer, TrainingData)
          /\ steps' = steps
          /\ epoch_steps' = <<"zero_grad", "forward">>
       \/ /\ LoopContinues(epoch, epochs)
          /\ ~ForwardRaises(trainer, TrainingData)
          /\ IsValidationEpoch(trainer, epoch)
          /\ ValidationRaises(TrainingData)
          /\ steps' = steps + 1
          /\ epoch_steps' = IterationSteps(trainer, TRUE)
    /\ train_pc' = "raised"
    /\ raised' = "IndexError"
    /\ UNCHANGED <<trainer, epochs, epoch, best_val_acc, patience_counter,
                   val_accuracies, max_seen, since_improve, early_stopped,
                   diverged>>
    /\ UNCHANGED <<source_exists, num_classes, save_outcome, main_pc,
                   exit_status, evaluation_results, output>>
    /\ UNCHANGED <<flatVars, liveVars, gateVars>>

\* the loop is over (exhausted or left by break): return the history
ReturnHistory ==
    /\ train_pc = "loop"
    /\ early_stopped \/ ~LoopContinues(epoch, epochs)
    /\ ~(epoch = 0 /\ PreLoopRaises(trainer, TrainingData))
    /\ train_pc' = "returned"
    /\ UNCHANGED <<trainer, epochs, epoch, best_val_acc, patience_counter,
                   val_accuracies, steps, max_seen, since_improve, early_stopped,
                   diverged, epoch_steps>>
    /\ UNCHANGED <<flatVars, liveVars, gateVars, mainVars>>

\* the default of --epochs in main() of the early-stopping scripts
DefaultEpochs(t) ==
    CASE t = "balanced"        -> 100
      [] t = "high_confidence" -> 150
      [] t = "improved"        -> 200

\* --epochs values: none, one, around a validation epoch, the defaults, the
\* last limit without and the first with a possible early stop, a large one
EpochChoices == {0, 1, 10, 11, 100, 150, 200, 290, 291, MaxEpochs}

TrainIdle ==
    /\ trainer = "base"
    /\ epochs = 0
    /\ epoch = 0
    /\ best_val_acc = 0
    /\ patience_counter = 0
    /\ val_accuracies = <<>>
    /\ steps = 0
    /\ max_seen = 0
    /\ since_improve = 0
    /\ early_stopped = FALSE
    /\ diverged = FALSE
    /\ epoch_steps = <<>>
    /\ train_pc = "idle"

(***************************************************************************)
(* The confidence gate of evaluate_model_high_confidence.  A probability   *)
(* vector is a function class -> weight with weights summing to ProbScale. *)
(***************************************************************************)
Classes == 0..2

ProbVectors ==
    {p \in [Classes -> 0..ProbScale] : p[0] + p[1] + p[2] = ProbScale}

\* max_probs of torch.max(probabilities, dim=1)
MaxProb(p) == CHOOSE m \in {p[c] : c \in Classes} : \A c \in Classes : p[c] <= m

\* the indices torch.max may return: a class holding the maximum
ArgMax(p) == {c \in Classes : p[c] = MaxProb(p)}

\* Confident with a strict comparison: a maximum equal to the threshold is
\* not confident.
ConfidentStrict(max_prob, threshold) == max_prob > threshold

\* confident_mask = max_probs >= confidence_threshold
Confident(max_prob, threshold) == max_prob >= threshold

\* GatedPrediction without the gate: the raw prediction in every case.
GatedPredictionRaw(confident, prediction) == prediction

\* torch.where(confident_mask, predictions, zeros_like(predictions))
GatedPrediction(confident, prediction) == IF confident THEN prediction ELSE 0

EvaluateHighConfidence ==
    /\ gate_pc = "start"
    /\ \E raw \in [1..Len(probabilities) -> Classes] :
        /\ \A i \in 1..Len(probabilities) : raw[i] \in ArgMax(probabilities[i])
        /\ LET confident_mask ==
                   [i \in 1..Len(probabilities) |->
                       Confident(MaxProb(probabilities[i]), confidence_threshold)]
           IN  /\ predictions' = raw
               /\ final_predictions' =
                      [i \in 1..Len(probabilities) |->
                          GatedPrediction(confident_mask[i], raw[i])]
               /\ confident_count' = SumBool(confident_mask)
    /\ gate_pc' = "evaluated"
    /\ UNCHANGED <<probabilities, confidence_threshold>>
    /\ UNCHANGED <<flatVars, liveVars, trainVars, mainVars>>

GateIdle ==
    /\ probabilities = <<>>
    /\ confidence_threshold = 0
    /\ predictions = <<>>
    /\ final_predictions = <<>>
    /\ confident_count = 0
    /\ gate_pc = "idle"

(***************************************************************************)
(* main() of the scripts reading a flat artifact (train_graphsage.py and   *)
(* the balanced, high-confidence and improved scripts): check the data     *)
(* path, load, create the model, train, evaluate, save the predictions.    *)
(* An exception nobody catches ends the process with status 1.             *)
(***************************************************************************)
MainVariants == Variants \ {"intersection"}

\* "if not os.path.exists(args.data_path): print(...); return"
MainCheckSource ==
    /\ main_pc = "check"
    /\ IF source_exists
       THEN /\ main_pc' = "load"
            /\ pc' = "start"
            /\ exit_status' = exit_status
       ELSE /\ main_pc' = "exited"
            /\ pc' = pc
            /\ exit_status' = <<0>>
    /\ UNCHANGED <<variant, artifact, data, removed_reported>>
    /\ UNCHANGED <<source_exists, num_classes, save_outcome, raised,
                   evaluation_results, output>>
    /\ UNCHANGED <<liveVars, trainVars, gateVars>>

\* data.y.max().item(), for a label vector that is not empty
LabelMax(y) == CHOOSE m \in Range(y) : \A v \in Range(y) : v <= m

\* the number of output classes main gives the model: the largest label
\* plus one; in the intersection script the number of distinct labels
NumClasses(v, y) ==
    IF v = "intersection" THEN Cardinality(Range(y)) ELSE LabelMax(y) + 1

\* model creation and the call of the training function (the loaders that
\* take the largest label have raised on an empty label vector)
MainStartTraining ==
    /\ main_pc = "load"
    /\ pc = "loaded"
    /\ num_classes' = NumClasses(variant, data.y)
    /\ main_pc' = "train"
    /\ train_pc' = "loop"
    /\ UNCHANGED <<trainer, epochs, epoch, best_val_acc, patience_counter,
                   val_accuracies, steps, max_seen, since_improve, early_stopped,
                   diverged, epoch_steps>>
    /\ UNCHANGED <<source_exists, save_outcome, raised, exit_status,
                   evaluation_results, output>>
    /\ UNCHANGED <<flatVars, liveVars, gateVars>>

\* evaluate: a forward pass, then out[data.test_mask] and
\* data.y[data.test_mask]
EvaluateRaises(t, d) ==
    \/ Len(d.test_mask) # Len(d.x)
    \/ Len(d.y) # Len(d.test_mask)
    \/ \E j \in 1..NumCols(d.edge_index) :
           \/ d.edge_index[1][j] < 0 \/ d.edge_index[1][j] >= Len(d.x)
           \/ d.edge_index[2][j] < 0 \/ d.edge_index[2][j] >= Len(d.x)
    \/ (t = "direct" /\ Len(d.x) > 0 /\ NumCols(d.edge_index) = 0)

\* the class vectors explored as the model's output for the whole graph:
\* the labels themselves and keep for every node
PredictionChoices(d) == {d.y, Fill(Len(d.x), 0)}

\* the evaluation function of the script, called after training returned
MainEvaluate ==
    /\ main_pc = "train"
    /\ train_pc = "returned"
    /\ raised = "none"
    /\ IF EvaluateRaises(trainer, data)
       THEN /\ raised' = "IndexError"
            /\ UNCHANGED <<main_pc, evaluation_results>>
       ELSE /\ \E full_pred \in PredictionChoices(data) :
                   evaluation_results' = <<full_pred>>
            /\ main_pc' = "save"
            /\ raised' = raised
    /\ UNCHANGED <<source_exists, num_classes, save_outcome, exit_status,
                   output>>
    /\ UNCHANGED <<flatVars, liveVars, trainVars, gateVars>>

\* save_predictions writes the prediction artifact; main then prints its
\* summary and returns
MainSavePredictions ==
    /\ main_pc = "save"
    /\ output' = evaluation_results
    /\ main_pc' = "exited"
    /\ exit_status' = <<0>>
    /\ UNCHANGED <<source_exists, num_classes, save_outcome, raised,
                   evaluation_results>>
    /\ UNCHANGED <<flatVars, liveVars, trainVars, gateVars>>

\* an exception raised by the load, the training or the evaluation leaves
\* main: traceback, exit status 1
MainUncaught ==
    /\ main_pc \in {"load", "train"}
    /\ raised # "none"
    /\ main_pc' = "exited"
    /\ exit_status' = <<1>>
    /\ UNCHANGED <<source_exists, num_classes, save_outcome, raised,
                   evaluation_results, output>>
    /\ UNCHANGED <<flatVars, liveVars, trainVars, gateVars>>

\* the three-node artifact with an edge to a node that does not exist
OutOfRangeArtifact == [ThreeNodeArtifact EXCEPT !.edge_index = <<0, 1, 1, 5>>]

\* the three-node artifact with only out-of-range edges
AllInvalidArtifact == [ThreeNodeArtifact EXCEPT !.edge_index = <<0, 7, 5, 1>>]

\* the three-node artifact with one of y and the masks a row short
ShortFieldArtifacts ==
    {[ThreeNodeArtifact EXCEPT !.y = Tail(@)],
     [ThreeNodeArtifact EXCEPT !.train_mask = Tail(@)],
     [ThreeNodeArtifact EXCEPT !.val_mask = Tail(@)],
     [ThreeNodeArtifact EXCEPT !.test_mask = Tail(@)]}

\* the files main is run on
MainArtifacts ==
    {TwoNodeArtifact, ThreeNodeArtifact, TenNodeArtifact, GarbledArtifact,
     OutOfRangeArtifact, AllInvalidArtifact}
    \cup MissingFieldArtifacts \cup ShortFieldArtifacts

\* --epochs: no epoch, one epoch, two validation checks (K = 10 and K = 15)
MainEpochChoices == {0, 1, 11, 16}

(***************************************************************************)
(* main() of train_intersection_graphsage.py: no check of the data path;   *)
(* load, create the model with as many outputs as there are distinct       *)
(* labels, train, evaluate, save.                                          *)
(***************************************************************************)
\* the classes among the true and the predicted labels of the test nodes
TestClasses(d, full_pred) ==
    {d.y[i] : i \in {k \in 1..Len(d.x) : d.test_mask[k]}}
    \cup {full_pred[i] : i \in {k \in 1..Len(d.x) : d.test_mask[k]}}

\* evaluate_model of the intersection script: like the live script's, the
\* classification report is given three class names
IntersectionEvaluate ==
    /\ main_pc = "train"
    /\ train_pc = "returned"
    /\ raised = "none"
    /\ IF EvaluateRaises(trainer, data)
       THEN /\ raised' = "IndexError"
            /\ UNCHANGED <<main_pc, evaluation_results>>
       ELSE \E full_pred \in PredictionChoices(data) :
            \E report_ok \in (IF Cardinality(TestClasses(data, full_pred)) = 3
                               THEN {TRUE} ELSE BOOLEAN) :
                IF report_ok
                THEN /\ evaluation_results' = <<full_pred>>
                     /\ main_pc' = "save"
                     /\ raised' = raised
                ELSE /\ raised' = "ValueError"
                     /\ UNCHANGED <<main_pc, evaluation_results>>
    /\ UNCHANGED <<source_exists, num_classes, save_outcome, exit_status,
                   output>>
    /\ UNCHANGED <<flatVars, liveVars, trainVars, gateVars>>

\* the three-node artifact with the labels 0 and 2 only, and with the label
\* 1 on every node
SparseLabelArtifact == [ThreeNodeArtifact EXCEPT !.y = <<2, 0, 2>>]

SingleLabelArtifact == [ThreeNodeArtifact EXCEPT !.y = <<1, 1, 1>>]

\* the files the intersection script is run on
IntersectionArtifacts ==
    MainArtifacts \cup {SparseLabelArtifact, SingleLabelArtifact}

\* --epochs: no epoch, one, two
IntersectionEpochChoices == {0, 1, 2}

(***************************************************************************)
(* main() of train_graphsage_direct.py: inside "try", connect, load,       *)
(* create the model, train, evaluate, save the predictions to the          *)
(* database; in "finally", loader.disconnect().                            *)
(***************************************************************************)
\* model creation and the call of train_model
DirectStartTraining ==
    /\ main_pc = "try"
    /\ live_pc = "loaded"
    /\ train_pc = "idle"
    /\ train_pc' = "loop"
    /\ num_classes' = NumClasses(trainer, live_data.y)
    /\ UNCHANGED <<trainer, epochs, epoch, best_val_acc, patience_counter,
                   val_accuracies, steps, max_seen, since_improve, early_stopped,
                   diverged, epoch_steps>>
    /\ UNCHANGED <<source_exists, main_pc, save_outcome, raised, exit_status,
                   evaluation_results, output>>
    /\ UNCHANGED <<flatVars, liveVars, gateVars>>

\* evaluate_model: classification_report is given three target_names and no
\* labels; when the test nodes show another number of classes it raises
\* ValueError or only warns, depending on the scikit-learn version
DirectEvaluate ==
    /\ main_pc = "try"
    /\ train_pc = "returned"
    /\ raised = "none"
    /\ evaluation_results = <<>>
    /\ IF EvaluateRaises(trainer, live_data)
       THEN /\ raised' = "IndexError"
            /\ UNCHANGED evaluation_results
       ELSE \E full_pred \in PredictionChoices(live_data) :
            \E report_ok \in (IF Cardinality(TestClasses(live_data, full_pred)) = 3
                               THEN {TRUE} ELSE BOOLEAN) :
                IF report_ok
                THEN /\ evaluation_results' = <<full_pred>>
                     /\ raised' = raised
                ELSE /\ raised' = "ValueError"
                     /\ UNCHANGED evaluation_results
    /\ UNCHANGED <<source_exists, num_classes, save_outcome, main_pc,
                   exit_status, output>>
    /\ UNCHANGED <<flatVars, liveVars, trainVars, gateVars>>

\* save_predictions_to_db, first statement: a connection of its own is
\* opened (outside the function's try); psycopg2.connect may raise
SavePredictionsConnect ==
    /\ main_pc = "try"
    /\ raised = "none"
    /\ evaluation_results # <<>>
    /\ save_connection = "none"
    /\ \/ /\ save_connection' = "open"
          /\ raised' = raised
          /\ save_outcome' = save_outcome
       \/ /\ save_connection' = save_connection
          /\ raised' = "OperationalError"
          /\ save_outcome' = <<"connect_failed", graphsage_predictions>>
    /\ UNCHANGED <<ways_noded_vertices_pgr, ways_noded, connection, live_data,
                   graphsage_predictions, previous_masks, live_pc>>
    /\ UNCHANGED <<source_exists, num_classes, main_pc, exit_status,
                   evaluation_results, output>>
    /\ UNCHANGED <<flatVars, trainVars, gateVars>>

\* the rows inserted for a prediction vector: enumerate(predictions)
PredictionRows(full_pred) == [i \in 1..Len(full_pred) |-> <<i - 1, full_pred[i]>>]

\* save_predictions_to_db, the rest: create, delete and insert in one
\* transaction, then commit; an exception is printed and rolled back, not
\* re-raised; the connection is closed in either case.
SavePredictionsWrite ==
    /\ main_pc = "try"
    /\ save_connection = "open"
    /\ \E committed \in BOOLEAN :
        /\ graphsage_predictions' =
               IF committed THEN PredictionRows(evaluation_results[1])
               ELSE graphsage_predictions
        /\ save_outcome' = <<IF committed THEN "committed" ELSE "rolled_back",
                             graphsage_predictions>>
    /\ save_connection' = "closed"
    /\ main_pc' = "finally"
    /\ UNCHANGED <<ways_noded_vertices_pgr, ways_noded, connection, live_data,
                   previous_masks, live_pc>>
    /\ UNCHANGED <<source_exists, num_classes, raised, exit_status,
                   evaluation_results, output>>
    /\ UNCHANGED <<flatVars, trainVars, gateVars>>

\* the finally clause of main: loader.disconnect(); then main is left,
\* with status 1 when an exception is propagating
Disconnect ==
    /\ \/ main_pc = "finally"
       \/ main_pc = "try" /\ raised # "none"
    /\ connection' = AfterDisconnect(connection)
    /\ main_pc' = "exited"
    /\ exit_status' = IF raised = "none" THEN <<0>> ELSE <<1>>
    /\ UNCHANGED <<ways_noded_vertices_pgr, ways_noded, live_data,
                   save_connection, graphsage_predictions, previous_masks,
                   live_pc>>
    /\ UNCHANGED <<source_exists, num_classes, save_outcome, raised,
                   evaluation_results, output>>
    /\ UNCHANGED <<flatVars, trainVars, gateVars>>

\* the script is run a second time on the same database
RunAgain ==
    /\ main_pc = "exited"
    /\ live_pc = "loaded"
    /\ previous_masks = <<>>
    /\ previous_masks' = <<[train_mask |-> live_data.train_mask,
                            val_mask   |-> live_data.val_mask,
                            test_mask  |-> live_data.test_mask]>>
    /\ connection' = "none"
    /\ save_connection' = "none"
    /\ live_data' = NoData
    /\ live_pc' = "start"
    /\ epoch' = 0
    /\ best_val_acc' = 0
    /\ patience_counter' = 0
    /\ val_accuracies' = <<>>
    /\ steps' = 0
    /\ early_stopped' = FALSE
    /\ diverged' = FALSE
    /\ epoch_steps' = <<>>
    /\ train_pc' = "idle"
    /\ main_pc' = "try"
    /\ num_classes' = 0
    /\ save_outcome' = <<>>
    /\ raised' = "none"
    /\ exit_status' = <<>>
    /\ evaluation_results' = <<>>
    /\ UNCHANGED <<ways_noded_vertices_pgr, ways_noded, graphsage_predictions>>
    /\ UNCHANGED <<trainer, epochs, max_seen, since_improve>>
    /\ UNCHANGED <<source_exists, output>>
    /\ UNCHANGED <<flatVars, gateVars>>

\* three nodes on a path, and two nodes without any edge row
SmallPathNodes == {10, 20, 30}

SmallPathEdges == <<<<10, 20>>, <<20, 30>>>>

\* the databases main is run on
DirectDatabases ==
    {<<FixtureNodes, DegreeFixtureEdges>>, <<SmallPathNodes, SmallPathEdges>>,
     <<{10, 20}, <<>>>>, <<{}, <<>>>>}

\* --epochs: no epoch, one epoch, two validation checks
DirectEpochChoices == {0, 1, 11}

MainIdle ==
    /\ source_exists = TRUE
    /\ main_pc = "idle"
    /\ num_classes = 0
    /\ save_outcome = <<>>
    /\ raised = "none"
    /\ exit_status = <<>>
    /\ evaluation_results = <<>>
    /\ output = <<>>

(***************************************************************************)
(* Specifications                                                          *)
(***************************************************************************)
InitFlat ==
    /\ variant \in Variants
    /\ artifact \in Artifacts
    /\ data = NoData
    /\ removed_reported = <<>>
    /\ pc = "start"
    /\ LiveIdle /\ TrainIdle /\ GateIdle /\ MainIdle

NextFlat == LoadGraphsageData

SpecFlat == InitFlat /\ [][NextFlat]_vars

InitLive ==
    /\ \E db \in Databases :
        /\ ways_noded_vertices_pgr = db[1]
        /\ ways_noded = db[2]
    /\ connection = "none"
    /\ save_connection = "none"
    /\ graphsage_predictions = <<>>
    /\ previous_masks = <<>>
    /\ live_data = NoData
    /\ live_pc = "start"
    /\ FlatIdle /\ TrainIdle /\ GateIdle /\ MainIdle

NextLive == Connect \/ LoadGraphData

SpecLive == InitLive /\ [][NextLive]_vars

InitTrain ==
    /\ trainer \in Trainers
    /\ epochs \in EpochChoices
    /\ epoch = 0
    /\ best_val_acc = 0
    /\ patience_counter = 0
    /\ val_accuracies = <<>>
    /\ steps = 0
    /\ max_seen = 0
    /\ since_improve = 0
    /\ early_stopped = FALSE
    /\ diverged = FALSE
    /\ epoch_steps = <<>>
    /\ train_pc = "loop"
    /\ FlatIdle /\ LiveIdle /\ GateIdle /\ MainIdle

NextTrain == TrainEpoch \/ ReturnHistory

SpecTrain == InitTrain /\ [][NextTrain]_vars

\* the loop is sequential code: it keeps running until it returns
SpecTrainFair == SpecTrain /\ WF_vars(NextTrain)

InitGate ==
    /\ probabilities \in SeqsUpTo(ProbVectors, MaxGateNodes)
    /\ confidence_threshold \in 0..(ProbScale + 1)
    /\ predictions = <<>>
    /\ final_predictions = <<>>
    /\ confident_count = 0
    /\ gate_pc = "start"
    /\ FlatIdle /\ LiveIdle /\ TrainIdle /\ MainIdle

NextGate == EvaluateHighConfidence

SpecGate == InitGate /\ [][NextGate]_vars

InitMain ==
    /\ variant \in MainVariants
    /\ source_exists \in BOOLEAN
    /\ artifact \in (IF source_exists THEN MainArtifacts
                     ELSE {Artifact(<<>>, <<>>, <<>>, <<>>, <<>>, <<>>)})
    /\ data = NoData
    /\ removed_reported = <<>>
    /\ pc = "idle"
    /\ trainer = variant
    /\ epochs \in MainEpochChoices
    /\ epoch = 0
    /\ best_val_acc = 0
    /\ patience_counter = 0
    /\ val_accuracies = <<>>
    /\ steps = 0
    /\ max_seen = 0
    /\ since_improve = 0
    /\ early_stopped = FALSE
    /\ diverged = FALSE
    /\ epoch_steps = <<>>
    /\ train_pc = "idle"
    /\ main_pc = "check"
    /\ num_classes = 0
    /\ save_outcome = <<>>
    /\ raised = "none"
    /\ exit_status = <<>>
    /\ evaluation_results = <<>>
    /\ output = <<>>
    /\ LiveIdle /\ GateIdle

NextMain ==
    \/ MainCheckSource
    \/ LoadGraphsageData
    \/ MainStartTraining
    \/ TrainEpoch
    \/ TrainRaises
    \/ ReturnHistory
    \/ MainEvaluate
    \/ MainSavePredictions
    \/ MainUncaught

SpecMain == InitMain /\ [][NextMain]_vars

InitIntersection ==
    /\ variant = "intersection"
    /\ source_exists = TRUE
    /\ artifact \in IntersectionArtifacts
    /\ data = NoData
    /\ removed_reported = <<>>
    /\ pc = "start"
    /\ trainer = variant
    /\ epochs \in IntersectionEpochChoices
    /\ epoch = 0
    /\ best_val_acc = 0
    /\ patience_counter = 0
    /\ val_accuracies = <<>>
    /\ steps = 0
    /\ max_seen = 0
    /\ since_improve = 0
    /\ early_stopped = FALSE
    /\ diverged = FALSE
    /\ epoch_steps = <<>>
    /\ train_pc = "idle"
    /\ main_pc = "load"
    /\ num_classes = 0
    /\ save_outcome = <<>>
    /\ raised = "none"
    /\ exit_status = <<>>
    /\ evaluation_results = <<>>
    /\ output = <<>>
    /\ LiveIdle /\ GateIdle

NextIntersection ==
    \/ LoadGraphsageData
    \/ MainStartTraining
    \/ TrainEpoch
    \/ TrainRaises
    \/ ReturnHistory
    \/ IntersectionEvaluate
    \/ MainSavePredictions
    \/ MainUncaught

SpecIntersection == InitIntersection /\ [][NextIntersection]_vars

InitDirect ==
    /\ \E db \in DirectDatabases :
        /\ ways_noded_vertices_pgr = db[1]
        /\ ways_noded = db[2]
    /\ connection = "none"
    /\ save_connection = "none"
    /\ graphsage_predictions = <<>>
    /\ previous_masks = <<>>
    /\ live_data = NoData
    /\ live_pc = "start"
    /\ trainer = "direct"
    /\ epochs \in DirectEpochChoices
    /\ epoch = 0
    /\ best_val_acc = 0
    /\ patience_counter = 0
    /\ val_accuracies = <<>>
    /\ steps = 0
    /\ max_seen = 0
    /\ since_improve = 0
    /\ early_stopped = FALSE
    /\ diverged = FALSE
    /\ epoch_steps = <<>>
    /\ train_pc = "idle"
    /\ source_exists = TRUE
    /\ main_pc = "try"
    /\ num_classes = 0
    /\ save_outcome = <<>>
    /\ raised = "none"
    /\ exit_status = <<>>
    /\ evaluation_results = <<>>
    /\ output = <<>>
    /\ FlatIdle /\ GateIdle

NextDirect ==
    \/ Connect
    \/ ConnectFails
    \/ LoadGraphData
    \/ QueryFails
    \/ DirectStartTraining
    \/ TrainEpoch
    \/ TrainRaises
    \/ ReturnHistory
    \/ DirectEvaluate
    \/ SavePredictionsConnect
    \/ SavePredictionsWrite
    \/ Disconnect
    \/ RunAgain

SpecDirect == InitDirect /\ [][NextDirect]_vars

(***************************************************************************)
(* Properties of the flat loaders                                          *)
(***************************************************************************)
\* the edges of a 2 x E tensor as a sequence of (source, target) pairs
Pairs(edge_index) ==
    [j \in 1..NumCols(edge_index) |-> <<edge_index[1][j], edge_index[2][j]>>]

InputPairs == Pairs(View(artifact.edge_index))

InRangePair(p, n) == 0 <= p[1] /\ p[1] < n /\ 0 <= p[2] /\ p[2] < n

FlatLoadedValidating == pc = "loaded" /\ variant \in Validating

\* C6: in the validating loaders, for n >= 1, the returned edge list is
\* exactly the sub-sequence of the input edges (the columns of the reshaped
\* edge_index) with both endpoints in 0..n-1, in the original order.
C6_FilterKeepsExactlyInRange ==
    (FlatLoadedValidating /\ Len(artifact.x) >= 1) =>
        LET InRange(p) == InRangePair(p, Len(artifact.x))
        IN  Pairs(data.edge_index) = SelectSeq(InputPairs, InRange)

\* a load of two input edges that dropped the out-of-range one and kept
\* the other
C6_Witness ==
    /\ FlatLoadedValidating
    /\ Len(artifact.x) >= 1
    /\ Len(InputPairs) = 2
    /\ NumCols(data.edge_index) = 1
    /\ \E j \in 1..2 : InputPairs[j][1] < 0 \/ InputPairs[j][2] >= Len(artifact.x)

\* C7: when the loader drops k invalid edges, the count it reports is k.
C7_ReportedCountIsDropped ==
    (FlatLoadedValidating /\ removed_reported # <<>>) =>
        removed_reported = <<Len(InputPairs) - NumCols(data.edge_index)>>

\* C8: every flat loader hands over a graph whose edge endpoints are all
\* existing node indices.
C8_EveryLoaderEdgesInRange ==
    pc = "loaded" =>
        \A j \in 1..NumCols(data.edge_index) :
            InRangePair(Pairs(data.edge_index)[j], Len(data.x))

\* C9: validating an edge list the loader has already validated returns the
\* same edge list (filter(filter(E)) = filter(E)).
C9_FilterIdempotent ==
    FlatLoadedValidating =>
        LET again == ValidateEdgeIndex(data.edge_index, Len(data.x))
        IN  ~again.raised /\ again.edge_index = data.edge_index

\* C10: a returned graph has as many feature rows as labels and as entries
\* in each of the three masks.
C10_LengthsAgree ==
    pc = "loaded" =>
        /\ Len(data.y) = Len(data.x)
        /\ Len(data.train_mask) = Len(data.x)
        /\ Len(data.val_mask) = Len(data.x)
        /\ Len(data.test_mask) = Len(data.x)

(***************************************************************************)
(* Properties of the live loader                                           *)
(***************************************************************************)
LiveDegrees == [i \in 1..Len(live_data.x) |-> live_data.x[i].degree]

\* C1: the label of every node of a loaded graph is determined by its
\* degree alone: degree 2 gives 1, degree >= 4 gives 2, any other degree
\* gives 0; degrees 1,2,2,3,4,5 give labels 0,1,1,0,2,2 and a graph whose
\* nodes all have degree 2 is labelled 1 everywhere.
C1_LabelFromDegree ==
    live_pc = "loaded" =>
        /\ \A i \in 1..Len(live_data.y) :
            /\ LiveDegrees[i] = 2 => live_data.y[i] = 1
            /\ LiveDegrees[i] >= 4 => live_data.y[i] = 2
            /\ (LiveDegrees[i] # 2 /\ LiveDegrees[i] < 4) => live_data.y[i] = 0
        /\ \A i, j \in 1..Len(live_data.y) :
            LiveDegrees[i] = LiveDegrees[j] => live_data.y[i] = live_data.y[j]
        /\ LiveDegrees = <<1, 2, 2, 3, 4, 5>> => live_data.y = <<0, 1, 1, 0, 2, 2>>
        /\ (\A i \in 1..Len(live_data.y) : LiveDegrees[i] = 2) =>
               (\A i \in 1..Len(live_data.y) : live_data.y[i] = 1)

\* the fixture graph with degrees 1,2,2,3,4,5 has been loaded and labelled
C1_Witness ==
    /\ live_pc = "loaded"
    /\ LiveDegrees = <<1, 2, 2, 3, 4, 5>>
    /\ live_data.y = <<0, 1, 1, 0, 2, 2>>

MaskCount(i) ==
    (IF live_data.train_mask[i] THEN 1 ELSE 0)
    + (IF live_data.val_mask[i] THEN 1 ELSE 0)
    + (IF live_data.test_mask[i] THEN 1 ELSE 0)

\* C2: for every shuffle outcome the three masks of a loaded graph are
\* pairwise disjoint, every node is in exactly one of them, and the three
\* partition sizes sum to the node count.
C2_MasksPartitionNodes ==
    live_pc = "loaded" =>
        /\ Len(live_data.train_mask) = Len(live_data.x)
        /\ Len(live_data.val_mask) = Len(live_data.x)
        /\ Len(live_data.test_mask) = Len(live_data.x)
        /\ \A i \in 1..Len(live_data.x) : MaskCount(i) = 1
        /\ SumBool(live_data.train_mask) + SumBool(live_data.val_mask)
               + SumBool(live_data.test_mask) = Len(live_data.x)

\* a loaded graph in which all three partitions are non-empty
C2_Witness ==
    /\ live_pc = "loaded"
    /\ SumBool(live_data.train_mask) > 0
    /\ SumBool(live_data.val_mask) > 0
    /\ SumBool(live_data.test_mask) > 0

\* the dense index of an external id: its rank among the node ids
RankOf(id) == Cardinality({m \in ways_noded_vertices_pgr : m < id})

\* the edge-table rows with both endpoints in the node set (NULL never is)
JoinedRows ==
    {j \in 1..Len(ways_noded) :
        /\ ways_noded[j][1] \in ways_noded_vertices_pgr
        /\ ways_noded[j][2] \in ways_noded_vertices_pgr}

LivePairs == Pairs(live_data.edge_index)

\* C13: the node ids are mapped one-to-one onto 0..n-1 in ascending id
\* order, and the loaded edge list holds exactly the edge rows whose two
\* endpoints are non-null and in the node set, each translated through that
\* mapping (as many times as the row occurs); every other row is skipped,
\* so every loaded endpoint lies in 0..n-1.
C13_IdMappingAndEdgeSkip ==
    live_pc = "loaded" =>
        LET node_ids == Ascending(ways_noded_vertices_pgr)
            n        == Len(live_data.x)
        IN  /\ n = Cardinality(ways_noded_vertices_pgr)
            /\ \A i \in 1..n : NodeIdToIdx(node_ids, node_ids[i]) = i - 1
            /\ \A id \in ways_noded_vertices_pgr :
                   NodeIdToIdx(node_ids, id) = RankOf(id)
            /\ Len(LivePairs) = Cardinality(JoinedRows)
            /\ \A s, t \in ways_noded_vertices_pgr :
                   Cardinality({j \in JoinedRows : ways_noded[j] = <<s, t>>})
                   = Cardinality({j \in 1..Len(LivePairs) :
                                     LivePairs[j] = <<RankOf(s), RankOf(t)>>})
            /\ \A j \in 1..Len(LivePairs) : InRangePair(LivePairs[j], n)

\* a load that kept one row and skipped a row with two non-null endpoints,
\* one of them not a node
C13_Witness ==
    /\ live_pc = "loaded"
    /\ Len(LivePairs) >= 1
    /\ \E j \in 1..Len(ways_noded) :
        /\ NotNullRow(ways_noded[j])
        /\ j \notin JoinedRows

\* C14: with n nodes the train partition holds floor(0.7 * n) nodes, the
\* validation partition floor(0.15 * n) and the test partition all the
\* remaining n - floor(0.7 * n) - floor(0.15 * n) nodes.
C14_PartitionSizes ==
    live_pc = "loaded" =>
        LET n == Len(live_data.x)
        IN  /\ SumBool(live_data.train_mask) = (7 * n) \div 10
            /\ SumBool(live_data.val_mask) = (15 * n) \div 100
            /\ SumBool(live_data.test_mask)
                   = n - (7 * n) \div 10 - (15 * n) \div 100

(***************************************************************************)
(* Properties of the confidence gate                                       *)
(***************************************************************************)
\* C3: every node whose class probabilities are all strictly below the
\* threshold gets the final prediction 0 (keep), whatever its raw argmax.
C3_LowConfidenceIsKeep ==
    gate_pc = "evaluated" =>
        \A i \in 1..Len(probabilities) :
            (\A c \in Classes : probabilities[i][c] < confidence_threshold)
                => final_predictions[i] = 0

\* a node whose raw argmax is not keep was gated to keep
C3_Witness ==
    /\ gate_pc = "evaluated"
    /\ \E i \in 1..Len(probabilities) :
        /\ predictions[i] # 0
        /\ \A c \in Classes : probabilities[i][c] < confidence_threshold
        /\ final_predictions[i] = 0

(***************************************************************************)
(* Properties of the training loops                                        *)
(***************************************************************************)
\* C4: the loop runs at most `epochs` optimization epochs, exactly `epochs`
\* when early stopping does not fire, and then returns its history.
C4_TerminatesWithinLimit ==
    /\ [](steps <= epochs)
    /\ []((train_pc = "returned" /\ ~early_stopped) => steps = epochs)
    /\ <>(train_pc = "returned")

\* a run that stopped early, before the epoch limit, and returned
C4_Witness ==
    /\ train_pc = "returned"
    /\ early_stopped
    /\ steps < epochs

ClaimedK(t) == IF t = "high_confidence" THEN 15 ELSE 10

\* C15: in the balanced, improved, high-confidence and base trainers the
\* validation checks (and history entries) happen at exactly the executed
\* 0-based epochs e with e mod K = 0 (K = 10, 10, 15, 10), in order, and an
\* early stop is decided only at such an epoch.
C15_ValidationEveryK ==
    trainer \in {"balanced", "improved", "high_confidence", "base"} =>
        LET K == ClaimedK(trainer)
        IN  /\ Len(val_accuracies) = (steps + K - 1) \div K
            /\ \A i \in 1..Len(val_accuracies) :
                   val_accuracies[i] = (i - 1) * K
            /\ early_stopped =>
                   /\ epoch % K = 0
                   /\ val_accuracies[Len(val_accuracies)] = epoch
                   /\ steps = epoch + 1

\* a finished high-confidence run with several validation checks and
\* epochs without a check after the last one
C15_Witness ==
    /\ train_pc = "returned"
    /\ trainer = "high_confidence"
    /\ Len(val_accuracies) >= 2
    /\ steps > val_accuracies[Len(val_accuracies)] + 1

(***************************************************************************)
(* Properties of the live pipeline (main of train_graphsage_direct.py)     *)
(***************************************************************************)
\* C11: whenever control has left main - after a complete run, a failed
\* load query, a failure in training or in evaluation - the loader's
\* connection is not open: it was closed if it had been opened, and it is
\* untouched (no close attempted) only if opening it failed.
C11_ConnectionClosedOnExit ==
    main_pc = "exited" =>
        /\ connection # "open"
        /\ connection = "none" <=> (live_pc = "failed" /\ raised = "OperationalError")
        /\ connection = "closed" => live_pc \in {"failed", "loaded"}

\* main was left by an exception raised during training, with the
\* connection closed
C11_Witness ==
    /\ main_pc = "exited"
    /\ train_pc = "raised"
    /\ exit_status = <<1>>
    /\ connection = "closed"

\* C12: the loader's connection is closed before the load returns to its
\* caller: it is not open while training, evaluation or the saving of the
\* predictions run, and never are two database connections open at once.
C12_ConnectionScopedToLoad ==
    /\ live_pc = "loaded" => connection # "open"
    /\ train_pc \in {"loop", "returned", "raised"} => connection # "open"
    /\ ~(connection = "open" /\ save_connection = "open")

\* C19: a second run of the live loader on the same tables gives the same
\* train, validation and test masks as the first.
C19_PartitionReproducible ==
    (previous_masks # <<>> /\ live_pc = "loaded") =>
        /\ live_data.train_mask = previous_masks[1].train_mask
        /\ live_data.val_mask = previous_masks[1].val_mask
        /\ live_data.test_mask = previous_masks[1].test_mask

(***************************************************************************)
(* Properties of the runs on a flat artifact                               *)
(***************************************************************************)
\* a required field is absent, is not numeric, or y or a mask has another
\* length than x
MalformedArtifact ==
    \/ ~(RequiredFields \subseteq artifact.keys)
    \/ ~artifact.x_numeric
    \/ Len(artifact.y) # Len(artifact.x)
    \/ Len(artifact.train_mask) # Len(artifact.x)
    \/ Len(artifact.val_mask) # Len(artifact.x)
    \/ Len(artifact.test_mask) # Len(artifact.x)

\* C16: on an artifact with a missing or malformed required field the load
\* fails with DataFormatError, no training epoch is executed and no
\* prediction artifact is written.
C16_MalformedArtifactAborts ==
    (MalformedArtifact /\ pc \in {"loaded", "error"}) =>
        /\ pc = "error"
        /\ raised = "DataFormatError"
        /\ steps = 0
        /\ output = <<>>

\* the input edge list can be read as pairs (or is empty)
EdgeListReadable ==
    /\ RequiredFields \subseteq artifact.keys
    /\ artifact.x_numeric
    /\ Len(artifact.edge_index) % 2 = 0
    /\ Len(artifact.y) > 0

ValidInputPairs ==
    LET InRange(p) == InRangePair(p, Len(artifact.x))
    IN  SelectSeq(InputPairs, InRange)

\* C17: a validating loader drops the invalid edges and returns the graph
\* when at least one valid edge remains, and fails with GraphIntegrityError
\* exactly when none remains (an empty input edge list included).
C17_HardErrorIffNoValidEdge ==
    (variant \in Validating /\ EdgeListReadable /\ pc \in {"loaded", "error"}) =>
        IF Len(ValidInputPairs) >= 1
        THEN /\ pc = "loaded"
             /\ Pairs(data.edge_index) = ValidInputPairs
        ELSE /\ pc = "error"
             /\ raised = "GraphIntegrityError"

\* C18: once a training loss was not finite, the trainer has raised
\* TrainingDivergedError (it did not go on) and no prediction artifact is
\* written.
C18_DivergenceRaises ==
    diverged =>
        /\ train_pc = "raised"
        /\ raised = "TrainingDivergedError"
        /\ output = <<>>

\* C20: when the data path does not exist the process exits with a
\* non-zero status, having loaded, trained and written nothing.
C20_MissingSourceExitsNonZero ==
    (~source_exists /\ main_pc = "exited") =>
        /\ exit_status # <<0>>
        /\ pc = "idle"
        /\ steps = 0
        /\ output = <<>>

\* C21: a saved prediction row is keyed by the node's identity: the table
\* holds one row per loaded node and the node_id of the i-th row is the
\* i-th node id of the node table (ascending), whatever the ids are.
C21_RowsKeyedByNodeId ==
    (save_connection = "closed" /\ graphsage_predictions # <<>>) =>
        /\ Len(graphsage_predictions) = Cardinality(ways_noded_vertices_pgr)
        /\ \A i \in 1..Len(graphsage_predictions) :
               graphsage_predictions[i][1] = Ascending(ways_noded_vertices_pgr)[i]

\* the number of loaded edges with the node at 0-based position k as an
\* endpoint
IncidentLoaded(k) ==
    Cardinality({j \in 1..Len(LivePairs) :
                    LivePairs[j][1] = k \/ LivePairs[j][2] = k})

\* C29: in the live loader the degree of a node - its feature and the
\* input of its label - is the number of loaded edges incident to it,
\* also when the edge table has rows with a null endpoint, rows to nodes
\* outside the node table, or self-loops.
C29_DegreeIsIncidentEdges ==
    live_pc = "loaded" =>
        \A i \in 1..Len(live_data.x) : LiveDegrees[i] = IncidentLoaded(i - 1)

\* the edges of a flattened list of (source, target) pairs [s0, t0, s1, t1, ...]
FlattenedPairs(flat) ==
    [j \in 1..(Len(flat) \div 2) |-> <<flat[2 * j - 1], flat[2 * j]>>]

\* C23: the stored edge list is a flattened list of E >= 1 (source, target)
\* pairs, and the loaded 2 x E tensor has as its j-th edge exactly the j-th
\* pair (s_j, t_j); stated where the filter of the validating loaders
\* removes nothing.
C23_ReshapeKeepsPairs ==
    (pc = "loaded" /\ \A j \in 1..Len(artifact.edge_index) :
                          /\ 0 <= artifact.edge_index[j]
                          /\ artifact.edge_index[j] < Len(artifact.x)) =>
        Pairs(data.edge_index) = FlattenedPairs(artifact.edge_index)

\* C27: the gate changes nothing for a confident node - one whose largest
\* class probability is at least the threshold, equality included: its
\* final prediction is the raw argmax; so at most confident_count final
\* predictions are not keep, and there is a final prediction for every
\* node.
C27_GateKeepsConfident ==
    gate_pc = "evaluated" =>
        /\ Len(final_predictions) = Len(probabilities)
        /\ \A i \in 1..Len(probabilities) :
               (\E c \in Classes : probabilities[i][c] >= confidence_threshold)
                   => /\ final_predictions[i] = predictions[i]
                      /\ final_predictions[i] \in ArgMax(probabilities[i])
        /\ Cardinality({i \in 1..Len(final_predictions) : final_predictions[i] # 0})
               <= confident_count

\* a node whose largest probability equals the threshold kept its raw,
\* non-keep prediction, next to a node that was gated
C27_Witness ==
    /\ gate_pc = "evaluated"
    /\ \E i, k \in 1..Len(probabilities) :
        /\ MaxProb(probabilities[i]) = confidence_threshold
        /\ predictions[i] # 0
        /\ final_predictions[i] = predictions[i]
        /\ MaxProb(probabilities[k]) < confidence_threshold
        /\ confident_count = 1

\* the patience bounds as C24 and C25 state them
ClaimedPatience(t) ==
    CASE t = "balanced"        -> 30
      [] t = "high_confidence" -> 40
      [] t = "improved"        -> 50

C26_BestIsRunningMaximum ==
    [][/\ trainer \in EarlyStopping =>
             /\ best_val_acc = max_seen /\ best_val_acc' = max_seen'
             /\ best_val_acc >= 0
             /\ patience_counter = since_improve
             /\ patience_counter' = since_improve'
       /\ best_val_acc' >= best_val_acc
       /\ (trainer \in EarlyStopping /\ Len(val_accuracies') > Len(val_accuracies)) =>
              IF best_val_acc' > best_val_acc
              THEN patience_counter' = 0
              ELSE patience_counter' = patience_counter + 1
       /\ Len(val_accuracies') = Len(val_accuracies) =>
              /\ patience_counter' = patience_counter
              /\ best_val_acc' = best_val_acc]_vars

\* the best was improved twice, then two checks brought no improvement
C26_Witness ==
    /\ trainer \in EarlyStopping
    /\ best_val_acc = 2
    /\ patience_counter = 2
    /\ Len(val_accuracies) = 4

\* the epochs run since the last validation check that improved the best
\* accuracy (since the start when no check did)
EpochsSinceImprovement ==
    IF Len(val_accuracies) > since_improve
    THEN steps - 1 - val_accuracies[Len(val_accuracies) - since_improve]
    ELSE steps

\* C24: training ends once 30 (40, 50) training epochs have
\* elapsed since the last improvement - the loop runs no further epoch
\* then, and an early stop comes after that many epochs.
C24_StopsAfterPatienceEpochs ==
    trainer \in EarlyStopping =>
        /\ (train_pc = "loop" /\ ~early_stopped /\ LoopContinues(epoch, epochs)) =>
               EpochsSinceImprovement < ClaimedPatience(trainer)
        /\ early_stopped => EpochsSinceImprovement = ClaimedPatience(trainer)

\* the order C22 states for the parameter update of one epoch
ClaimedOptimizationOrder ==
    <<"zero_grad", "forward", "loss", "backward", "clip_grad_norm", "step">>

\* C22: in every epoch of every trainer the parameter update is: zero the
\* gradients, forward pass, loss, backward pass, clip the gradient norm,
\* apply the update - the update is never applied to unclipped gradients -
\* and the epoch's validation check comes after the update.
C22_EpochStepOrder ==
    steps > 0 =>
        /\ Len(epoch_steps) >= Len(ClaimedOptimizationOrder)
        /\ SubSeq(epoch_steps, 1, Len(ClaimedOptimizationOrder))
               = ClaimedOptimizationOrder
        /\ \A k \in (Len(ClaimedOptimizationOrder) + 1)..Len(epoch_steps) :
               epoch_steps[k] = "validate"

\* C30: saving the predictions is all-or-nothing. Once the save is over,
\* its connection is not open and the table holds either exactly one row
\* per node of this run, or - when a statement or the connect failed -
\* exactly the rows it held when the save was called; a failed save is
\* reported to main (an exception is on its way out), not followed by
\* main's success message and exit status 0.
C30_SaveAllOrNothing ==
    save_outcome # <<>> =>
        /\ save_connection # "open"
        /\ IF save_outcome[1] = "committed"
           THEN /\ Len(graphsage_predictions) = Len(live_data.x)
                /\ graphsage_predictions = PredictionRows(evaluation_results[1])
           ELSE /\ graphsage_predictions = save_outcome[2]
                /\ raised # "none"
                /\ exit_status # <<0>>

\* C28: once main has built the model for the loaded graph, every label in
\* y is an output class index of that model: 0 <= y < number of output
\* classes, also where the number of classes is the number of distinct
\* labels; stated for graphs with one label per node.
C28_LabelsAreClassIndices ==
    (train_pc # "idle" /\ Len(TrainingData.y) = Len(TrainingData.x)) =>
        \A i \in 1..Len(TrainingData.y) :
            0 <= TrainingData.y[i] /\ TrainingData.y[i] < num_classes

====
